---- MODULE Spec2Model ----
(***************************************************************************)
(* Food_Calorie_Tracker: the Streamlit script food_detector_app2.py.       *)
(* Every user interaction re-executes the whole script: the log file is    *)
(* created when missing, the Detect tab rebuilds the editable item list    *)
(* and (on the button) accumulates the plate's calories into today's meal  *)
(* slot, and the Meal Tracker tab reads today's totals back from the file. *)
(* One action of the model is one execution of the script.                 *)
(***************************************************************************)
EXTENDS Integers, Sequences, FiniteSets, TLC

(* ---------------- bounds of the model ---------------- *)
MaxDay == 2
MaxKcal == 320

(* ---------------- program constants ---------------- *)
min_value == 1
max_value == 20

NUTRITION ==
  [ banana |-> [calories |-> 105], apple |-> [calories |-> 95],
    orange |-> [calories |-> 62], lemon |-> [calories |-> 17],
    lime |-> [calories |-> 20], pineapple |-> [calories |-> 50],
    mango |-> [calories |-> 99], papaya |-> [calories |-> 55],
    grapes |-> [calories |-> 62], egg |-> [calories |-> 78],
    bread |-> [calories |-> 66], idli |-> [calories |-> 39],
    dosa |-> [calories |-> 133], biryani |-> [calories |-> 290],
    veg_biryani |-> [calories |-> 240],
    chicken_biryani |-> [calories |-> 300],
    dal |-> [calories |-> 120], sambar |-> [calories |-> 100],
    chapati |-> [calories |-> 120], rice |-> [calories |-> 136],
    curd |-> [calories |-> 98], pongal |-> [calories |-> 210],
    poha |-> [calories |-> 180], upma |-> [calories |-> 220],
    vada |-> [calories |-> 97], samosa |-> [calories |-> 262],
    mysore_pak |-> [calories |-> 390], gulab_jamun |-> [calories |-> 150],
    laddu |-> [calories |-> 186], paneer |-> [calories |-> 265],
    chole |-> [calories |-> 210], rajma |-> [calories |-> 230] ]

MEAL_TYPES == <<"Breakfast", "Lunch", "Dinner", "Snacks">>

MealSet == {MEAL_TYPES[i] : i \in 1..Len(MEAL_TYPES)}

(* datetime.now().strftime("%Y-%m-%d") of the n-th day the model covers *)
DateStr == <<"2024-01-01", "2024-01-02", "2024-01-03", "2024-01-04">>

Strftime(n) == DateStr[n]

(* the class names the detector reports for the images the model uploads,  *)
(* the foods the user picks in a selectbox (keys of NUTRITION) and the     *)
(* numbers the user types into a count field; an upload shows fresh        *)
(* widgets, that is the detected names with count 1                        *)
Detections == {<<>>, <<"banana">>, <<"Dosa", "hotdog">>}

Choices == {"biryani"}

Typed == {0 - 1, 0, 1, 2, 21}

(* str.lower() on the class names above *)
Lower(s) == CASE s = "Dosa" -> "dosa"
              [] s = "Banana" -> "banana"
              [] OTHER -> s

(* lines 177-181: lower-case the class name, unknown names become apple *)
DetectedNameNoFallback(raw) == Lower(raw)

DetectedName(raw) ==
  LET detected_name == Lower(raw)
  IN  IF detected_name \notin DOMAIN NUTRITION THEN "apple" ELSE detected_name

(* lines 184-189: list(NUTRITION.keys()).index(detected_name) raises       *)
(* ValueError when the name is not an option                               *)
SelectboxOk(name) == name \in DOMAIN NUTRITION

(* lines 192-200: the values the count number_input can hold *)
CountRangeNegative == (0 - 1)..max_value

CountRange == min_value..max_value

(* ---------------- the log file ---------------- *)
EmptyLog == [d \in {} |-> [m \in {} |-> 0]]

NoFile == [exists |-> FALSE, valid |-> FALSE, doc |-> EmptyLog]

(* open(LOG_FILE, "w") has truncated the file and json.dump did not finish *)
Truncated == [exists |-> TRUE, valid |-> FALSE, doc |-> EmptyLog]

(* lines 82-84 *)
save_log_lost(data) == [exists |-> TRUE, valid |-> TRUE, doc |-> EmptyLog]

save_log(data) == [exists |-> TRUE, valid |-> TRUE, doc |-> data]

(* lines 74-76: create the file only when it does not exist *)
StartupFileAlways(f) == save_log(EmptyLog)

StartupFile(f) == IF ~f.exists THEN save_log(EmptyLog) ELSE f

(* line 214 *)
ZeroDayPartial == [m \in {MEAL_TYPES[1]} |-> 0]

ZeroDay == [m \in MealSet |-> 0]

(* lines 213-214 *)
WithToday(log, today) ==
  IF today \notin DOMAIN log THEN (today :> ZeroDay) @@ log ELSE log

(* line 216 *)
RECURSIVE total_plate(_)
total_plate(final_items) ==
  IF final_items = <<>> THEN 0
  ELSE NUTRITION[Head(final_items).name].calories * Head(final_items).count
       + total_plate(Tail(final_items))

(* line 218 *)
AddToSlotOverwrite(log, today, meal, amount) ==
  [log EXCEPT ![today][meal] = amount]

AddToSlotAll(log, today, meal, amount) ==
  [log EXCEPT ![today] = [m \in DOMAIN log[today] |-> log[today][m] + amount]]

AddToSlot(log, today, meal, amount) ==
  [log EXCEPT ![today][meal] = @ + amount]

(* sum(meals.values()), line 237 *)
SumValuesShort(meals) ==
  meals[MEAL_TYPES[1]] + meals[MEAL_TYPES[2]] + meals[MEAL_TYPES[3]]

RECURSIVE SumValues(_)
SumValues(meals) ==
  IF DOMAIN meals = {} THEN 0
  ELSE LET k == CHOOSE x \in DOMAIN meals : TRUE
       IN  meals[k] + SumValues([m \in DOMAIN meals \ {k} |-> meals[m]])

(* the calories of the whole log, which MaxKcal caps *)
RECURSIVE LogTotal(_)
LogTotal(log) ==
  IF DOMAIN log = {} THEN 0
  ELSE LET d == CHOOSE x \in DOMAIN log : TRUE
       IN  SumValues(log[d]) + LogTotal([e \in DOMAIN log \ {d} |-> log[e]])

NoMeals == [m \in {} |-> 0]

(* lines 230-244: what the Meal Tracker tab shows for the file f on day d *)
TrackerView(f, today) ==
  IF ~f.valid
    THEN [kind |-> "error", date |-> today, meals |-> NoMeals, total |-> 0]
  ELSE IF today \notin DOMAIN f.doc
    THEN [kind |-> "none", date |-> today, meals |-> NoMeals, total |-> 0]
  ELSE IF ~(MealSet \subseteq DOMAIN f.doc[today])
    THEN [kind |-> "error", date |-> today, meals |-> NoMeals, total |-> 0]
  ELSE [kind |-> "totals", date |-> today,
        meals |-> [m \in MealSet |-> f.doc[today][m]],
        total |-> SumValues(f.doc[today])]

(* the Meal Tracker tab never writes the file *)
TrackerFileCreates(f, today) ==
  IF f.valid THEN save_log(WithToday(f.doc, today)) ELSE f

TrackerFile(f, today) == f

Aborted(today) ==
  [kind |-> "aborted", date |-> today, meals |-> NoMeals, total |-> 0]


(* ---------------- state ---------------- *)
VARIABLES
  file,         \* meal_log.json: exists, parses, and the document it holds
  now,          \* the calendar day, an index into DateStr
  uploaded,     \* the file_uploader holds an image
  boxes,        \* results.boxes of that image: the reported class names
  items,        \* final_items: the (name, count) widgets' values
  meal_choice,  \* the "Add calories to:" selectbox
  button,       \* st.button returned True in the last run of the script
  view,         \* what the Meal Tracker tab rendered in the last run
  outcome,      \* how the last run of the script ended
  added         \* sum of the plates successfully added per (date, meal)

vars == <<file, now, uploaded, boxes, items, meal_choice, button, view,
          outcome, added>>

Dates == {Strftime(n) : n \in 1..MaxDay}

Today == Strftime(now)

Blank == [kind |-> "blank", date |-> Strftime(1), meals |-> NoMeals,
          total |-> 0]

Init ==
  /\ file = NoFile
  /\ now = 1
  /\ uploaded = FALSE
  /\ boxes = <<>>
  /\ items = <<>>
  /\ meal_choice = MEAL_TYPES[1]
  /\ button = FALSE
  /\ view = Blank
  /\ outcome = "ok"
  /\ added = [d \in Dates |-> [m \in MealSet |-> 0]]

(* A run of the script in which the button is not pressed: lines 74-76,    *)
(* then the tabs; only the Meal Tracker tab touches the file (load_log).   *)
RunWithoutButton ==
  /\ button' = FALSE
  /\ file' = TrackerFile(StartupFile(file), Today)
  /\ view' = TrackerView(file', Today)
  /\ outcome' = IF view'.kind = "error" THEN "JSONDecodeError" ELSE "ok"
  /\ UNCHANGED <<now, added>>

(* the process is started (again): session state is gone, the file stays *)
Restart ==
  /\ uploaded' = FALSE
  /\ boxes' = <<>>
  /\ items' = <<>>
  /\ meal_choice' = MEAL_TYPES[1]
  /\ RunWithoutButton

(* lines 157-202: an image is uploaded, the detector reports raw class     *)
(* names, each becomes an editable (name, count) pair with count 1         *)
Upload ==
  \E raw \in Detections :
    /\ uploaded' = TRUE
    /\ boxes' = raw
    /\ UNCHANGED meal_choice
    /\ IF \A i \in 1..Len(raw) : SelectboxOk(DetectedName(raw[i]))
         THEN /\ items' = [i \in 1..Len(raw) |->
                             [name |-> DetectedName(raw[i]), count |-> 1]]
              /\ RunWithoutButton
         ELSE /\ items' = <<>>
              /\ button' = FALSE
              /\ file' = StartupFile(file)
              /\ view' = Aborted(Today)
              /\ outcome' = "ValueError"
              /\ UNCHANGED <<now, added>>

(* lines 184-189: the user picks another food for item i *)
EditName ==
  \E i \in 1..Len(items) : \E name \in Choices :
    /\ uploaded
    /\ items[i].name # name
    /\ items' = [items EXCEPT ![i].name = name]
    /\ UNCHANGED <<uploaded, boxes, meal_choice>>
    /\ RunWithoutButton

(* lines 192-200: the user types a count for item i; the number_input      *)
(* takes it only within min_value..max_value                               *)
EditCount ==
  \E i \in 1..Len(items) : \E count \in Typed \cap CountRange :
    /\ uploaded
    /\ items[i].count # count
    /\ items' = [items EXCEPT ![i].count = count]
    /\ UNCHANGED <<uploaded, boxes, meal_choice>>
    /\ RunWithoutButton

(* line 207: the user picks the meal *)
ChooseMeal ==
  \E i \in 1..Len(MEAL_TYPES) :
    /\ uploaded
    /\ meal_choice # MEAL_TYPES[i]
    /\ meal_choice' = MEAL_TYPES[i]
    /\ UNCHANGED <<uploaded, boxes, items>>
    /\ RunWithoutButton

(* lines 209-221, then the Meal Tracker tab: the button is pressed *)
AddToMealLog ==
  /\ uploaded
  /\ LET f1 == StartupFile(file)
         amount == total_plate(items)
         log == WithToday(f1.doc, Today)
     IN  /\ button' = TRUE
         /\ UNCHANGED <<now, uploaded, boxes, items, meal_choice>>
         /\ IF ~f1.valid
              THEN /\ file' = f1
                   /\ view' = Aborted(Today)
                   /\ outcome' = "JSONDecodeError"
                   /\ UNCHANGED added
            ELSE IF meal_choice \notin DOMAIN log[Today]
              THEN /\ file' = f1
                   /\ view' = Aborted(Today)
                   /\ outcome' = "KeyError"
                   /\ UNCHANGED added
            ELSE /\ LogTotal(f1.doc) + amount <= MaxKcal
                 /\ file' = TrackerFile(
                      save_log(AddToSlot(log, Today, meal_choice, amount)),
                      Today)
                 /\ view' = TrackerView(file', Today)
                 /\ outcome' = IF view'.kind = "error" THEN "KeyError"
                               ELSE "ok"
                 /\ added' = [added EXCEPT ![Today][meal_choice] = @ + amount]

(* the button is pressed and save_log fails: open() itself fails and the   *)
(* file is untouched, or the file is already truncated when the write      *)
(* stops                                                                   *)
AddWriteFails ==
  /\ uploaded
  /\ LET f1 == StartupFile(file)
     IN  /\ f1.valid
         /\ button' = TRUE
         /\ \E stage \in {"open", "dump"} :
              file' = IF stage = "open" THEN f1 ELSE Truncated
         /\ view' = Aborted(Today)
         /\ outcome' = "PersistenceError"
         /\ UNCHANGED <<now, uploaded, boxes, items, meal_choice, added>>

(* midnight passes; nothing runs *)
Tick ==
  /\ now < MaxDay
  /\ now' = now + 1
  /\ UNCHANGED <<file, uploaded, boxes, items, meal_choice, button, view,
                 outcome, added>>

Next ==
  \/ Restart
  \/ Upload
  \/ EditName
  \/ EditCount
  \/ ChooseMeal
  \/ AddToMealLog
  \/ Tick

Spec == Init /\ [][Next]_vars

(* the script on a disk where save_log can fail *)
NextFault ==
  \/ Next
  \/ AddWriteFails

SpecFault == Init /\ [][NextFault]_vars

(* ---------------- properties ---------------- *)
Slots == {"Breakfast", "Lunch", "Dinner", "Snacks"}

AllZero == [m \in Slots |-> 0]

Readable == file.exists /\ file.valid

(* the value the log holds for (d, m) before a step, 0 when d has no entry *)
Held(d, m) == IF d \in DOMAIN file.doc THEN file.doc[d][m] ELSE 0

(* the step is a run of the script in which the button was pressed (the    *)
(* only step that is no run of the script is midnight passing)             *)
Pressed == button' /\ now' = now

(* absent = 0, initialized (all slots 0) = 1, accumulated = 2 *)
Phase(log, d) ==
  IF d \notin DOMAIN log THEN 0
  ELSE IF \A m \in DOMAIN log[d] : log[d][m] = 0 THEN 1 ELSE 2

(* C1: accumulation, not overwrite. Every slot of every day entry of the   *)
(* log holds the sum of the amounts added to it (0 when nothing was added, *)
(* so a fresh day starts with four zero slots), a day without entry has    *)
(* had nothing added, and the totals the Meal Tracker shows are these sums *)
C1_Accumulation ==
  /\ Readable =>
       /\ \A d \in DOMAIN file.doc : \A m \in Slots :
            m \in DOMAIN file.doc[d] /\ file.doc[d][m] = added[d][m]
       /\ \A d \in Dates \ DOMAIN file.doc : \A m \in Slots : added[d][m] = 0
  /\ view.kind = "totals" =>
       \A m \in Slots : view.meals[m] = added[view.date][m]

(* 315 = 105 + 210: no single plate of the model reaches it, so the slot   *)
(* has taken at least two banana plates                                    *)
C1_Witness ==
  /\ Readable
  /\ \E d \in DOMAIN file.doc :
       file.doc[d]["Lunch"] = 315 /\ file.doc[d]["Dinner"] = 0
  /\ view.kind = "totals" /\ view.meals["Lunch"] = 315

(* C2: every day entry of the persisted log has exactly the four slot keys *)
(* Breakfast, Lunch, Dinner, Snacks, each a non-negative integer           *)
C2_FourSlots ==
  Readable =>
    \A d \in DOMAIN file.doc :
      /\ DOMAIN file.doc[d] = Slots
      /\ \A m \in DOMAIN file.doc[d] : file.doc[d][m] \in Nat

C2_Witness ==
  /\ Readable
  /\ button
  /\ \E d \in DOMAIN file.doc : \E m \in Slots :
       file.doc[d][m] > 0 /\ \E k \in Slots : file.doc[d][k] = 0

(* C3: slot totals are monotone. No step lowers a persisted slot value or  *)
(* removes a day, and a day only moves forward through absent,             *)
(* initialized (all zero) and accumulated                                  *)
C3_Monotone ==
  [][ Readable =>
        /\ file'.exists /\ file'.valid
        /\ \A d \in DOMAIN file.doc :
             /\ d \in DOMAIN file'.doc
             /\ \A m \in DOMAIN file.doc[d] :
                  m \in DOMAIN file'.doc[d]
                  /\ file'.doc[d][m] >= file.doc[d][m]
        /\ \A d \in Dates : Phase(file'.doc, d) >= Phase(file.doc, d) ]_vars

C3_Witness ==
  /\ Readable
  /\ \E d, e \in DOMAIN file.doc :
       Phase(file.doc, d) = 2 /\ Phase(file.doc, e) = 1

(* C4 as stated: a run that only reads leaves the log as it was, and the   *)
(* read of a day without entry yields four zero slots                      *)
C4_ReadDefaultAllZero ==
  [][ /\ ~Pressed => file'.doc = file.doc
      /\ (view'.kind \in {"none", "totals"}
          /\ view'.date \notin DOMAIN file'.doc) => view'.meals = AllZero
      /\ DOMAIN file'.doc # DOMAIN file.doc => Pressed ]_vars

(* C4 as amended: a run that only reads leaves the log as it was, the read *)
(* of a day without entry shows the "No meals logged today yet." notice    *)
(* and no slot values, and only the button's handler creates a day entry   *)
C4_ReadNonMutating ==
  [][ /\ ~Pressed => file'.doc = file.doc
      /\ (view'.kind \in {"none", "totals"}
          /\ view'.date \notin DOMAIN file'.doc) =>
            view'.kind = "none" /\ DOMAIN view'.meals = {}
      /\ view'.kind = "none" => view'.date \notin DOMAIN file'.doc
      /\ DOMAIN file'.doc # DOMAIN file.doc => Pressed ]_vars

(* the second day is read with no write on it while the first has entries *)
C4_Witness ==
  /\ Readable
  /\ ~button
  /\ view.kind = "none"
  /\ view.date \notin DOMAIN file.doc
  /\ DOMAIN file.doc # {}

(* what a successful press of the button leaves behind *)
Persisted ==
  /\ file'.exists /\ file'.valid
  /\ Today \in DOMAIN file'.doc
  /\ meal_choice \in DOMAIN file'.doc[Today]
  /\ file'.doc[Today][meal_choice] = Held(Today, meal_choice) + total_plate(items)
  /\ view'.kind = "totals"
  /\ view'.meals[meal_choice] = Held(Today, meal_choice) + total_plate(items)

(* C6 as stated: the add succeeds and the new total is persisted and read  *)
(* back, or it fails and the log still reads exactly as before the call    *)
C6_NoPartialFailure ==
  [][ Pressed =>
        \/ outcome' = "ok" /\ Persisted
        \/ outcome' # "ok" /\ file'.exists /\ file'.valid
             /\ file'.doc = file.doc ]_vars

(* C6 as amended: the add succeeds and the new total is persisted and read *)
(* back, or it fails; a failure before the file is opened for writing      *)
(* leaves the file as it was, a failure during the write leaves a          *)
(* truncated file that does not parse; no readable document with a partial *)
(* accumulation is ever left behind                                        *)
C6_SucceedsOrNoReadablePartial ==
  [][ Pressed =>
        \/ outcome' = "ok" /\ Persisted
        \/ outcome' # "ok" /\ file' = file
        \/ outcome' = "PersistenceError" /\ file'.exists /\ ~file'.valid
      ]_vars

C6_Witness ==
  /\ button
  /\ outcome = "PersistenceError"
  /\ file.exists /\ ~file.valid
  /\ \E d \in Dates : \E m \in Slots : added[d][m] > 0

(* C7: a reported class name that (lower-cased) is no key of NUTRITION     *)
(* becomes apple with count 1, one that is a key is kept; every name in    *)
(* final_items is a key of NUTRITION and no run ends in a failed lookup    *)
ExpectedLabel == [banana |-> "banana", Dosa |-> "dosa", hotdog |-> "apple"]

C7_DetectFallback ==
  /\ [][ (uploaded' /\ (boxes' # boxes \/ ~uploaded)) =>
           /\ Len(items') = Len(boxes')
           /\ \A i \in 1..Len(boxes') :
                /\ items'[i].name = ExpectedLabel[boxes'[i]]
                /\ items'[i].count = 1 ]_vars
  /\ [](/\ \A i \in 1..Len(items) : items[i].name \in DOMAIN NUTRITION
        /\ Len(items) = Len(boxes)
        /\ outcome \notin {"KeyError", "ValueError"})

C7_Witness ==
  /\ uploaded
  /\ boxes = <<"Dosa", "hotdog">>
  /\ items = <<[name |-> "dosa", count |-> 1], [name |-> "apple", count |-> 1]>>
  /\ button /\ outcome = "ok"
  /\ view.kind = "totals" /\ view.total = 228

(* C8: the Total Today value is the sum of the four slot values shown, and *)
(* the sum of every amount added on that day; the same holds of every day  *)
(* entry of the log                                                        *)
C8_GrandTotal ==
  /\ view.kind = "totals" =>
       /\ view.total = view.meals["Breakfast"] + view.meals["Lunch"]
                       + view.meals["Dinner"] + view.meals["Snacks"]
       /\ view.total = added[view.date]["Breakfast"] + added[view.date]["Lunch"]
                       + added[view.date]["Dinner"] + added[view.date]["Snacks"]
  /\ Readable =>
       \A d \in DOMAIN file.doc :
         SumValues(file.doc[d]) = added[d]["Breakfast"] + added[d]["Lunch"]
                                  + added[d]["Dinner"] + added[d]["Snacks"]

(* one plate on Breakfast, two on Lunch, one on Snacks *)
C8_Witness ==
  /\ view.kind = "totals"
  /\ view.meals["Breakfast"] = 105
  /\ view.meals["Lunch"] = 210
  /\ view.meals["Snacks"] = 0
  /\ view.total = 315

(* C9: start-up never loses data. A run of the script creates an empty log *)
(* when there is no file and leaves an existing file exactly as it was, so *)
(* the totals of today read after a restart are those written before it    *)
C9_StartupKeepsLog ==
  [][ /\ (now' = now /\ ~button') =>
           /\ file'.exists /\ file'.valid
           /\ file.exists => file' = file
           /\ ~file.exists => DOMAIN file'.doc = {}
      /\ (now' = now /\ ~uploaded' /\ Readable /\ Today \in DOMAIN file.doc) =>
           /\ view'.kind = "totals"
           /\ \A m \in Slots : view'.meals[m] = file.doc[Today][m]
      /\ Pressed => DOMAIN file.doc \subseteq DOMAIN file'.doc ]_vars

C9_Witness ==
  /\ ~uploaded
  /\ ~button
  /\ Readable
  /\ view.kind = "totals" /\ view.total > 0

(* C10: the add changes only the chosen slot of today. Every other slot of *)
(* today and every entry of another day is unchanged, a day entry that     *)
(* appears is today's with the other slots 0, and no day entry disappears  *)
C10_Frame ==
  [][ /\ \A d \in DOMAIN file.doc :
           /\ d \in DOMAIN file'.doc
           /\ \A m \in Slots :
                \/ Pressed /\ d = Today /\ m = meal_choice
                \/ file'.doc[d][m] = file.doc[d][m]
      /\ \A d \in DOMAIN file'.doc \ DOMAIN file.doc :
           /\ Pressed /\ d = Today
           /\ \A m \in Slots \ {meal_choice} : file'.doc[d][m] = 0 ]_vars

C10_Witness ==
  /\ Readable
  /\ button
  /\ \E d, e \in DOMAIN file.doc :
       /\ d # e
       /\ file.doc[d]["Breakfast"] > 0 /\ file.doc[d]["Dinner"] = 0
       /\ file.doc[e]["Dinner"] > 0 /\ file.doc[e]["Breakfast"] = 0

====
